---------------------------- MODULE Spec2Model ----------------------------
(***************************************************************************)
(* Model of Theramin.cpp: a WASAPI theremin.  A control thread (wWinMain,  *)
(* WndProc, InitWASAPI, ShutdownWASAPI) writes the parameter bus gParams   *)
(* and the running flag; a render thread (AudioThreadMain) pulls buffers   *)
(* from the device and runs the per-sample pipeline on gSynth.             *)
(*                                                                         *)
(* Numbers.  The code computes in 32-bit float.  The model computes in     *)
(* fixed point, rounding to nearest after every multiplication or          *)
(* division, as a float operation does:                                    *)
(*   amplitudes, gains, depths   1.0     = Unit                            *)
(*   frequencies                 1.0 Hz  = HzUnit                          *)
(*   phases                      2*pi    = kTwoPi                          *)
(***************************************************************************)
EXTENDS Integers, Sequences, FiniteSets, TLC

\* ------------------------------------------------------------------------
\* Fixed-point scales
\* ------------------------------------------------------------------------

\* 1.0f of an amplitude, a gain or a depth
Unit == 1000
\* 1.0f Hz
HzUnit == 10

\* n / d rounded to nearest (d > 0); the rounding of one float operation
Round(n, d) == (2 * n + d) \div (2 * d)

\* (a * b) of two Unit-scaled numbers
Mul(a, b) == Round(a * b, Unit)

Abs(x) == IF x < 0 THEN 0 - x ELSE x

Max(a, b) == IF a > b THEN a ELSE b

Min(a, b) == IF a < b THEN a ELSE b

\* ------------------------------------------------------------------------
\* Synth parameters and utilities (source lines 28-102)
\* ------------------------------------------------------------------------

\* 2*pi, in phase units (hundredths of a degree)
kTwoPi == 36000
\* 100.0f Hz, in HzUnit
kMinHz == 1000
\* 2000.0f Hz, in HzUnit
kMaxHz == 20000
\* 440.0f Hz, in HzUnit: the initial target and smoothed frequency
DefaultHz == 4400

\* sinf: Bhaskara's rational approximation on a half period, odd about pi,
\* periodic in 2*pi; |sinf| <= Unit, sinf(0) = 0, sinf(pi/2) = Unit.
HalfSine(x) ==
    LET p == (x * ((kTwoPi \div 2) - x)) \div 1000
    IN  Round(4000 * p, 405000 - p)

sinf(phase) ==
    LET x == phase % kTwoPi
    IN  IF x < kTwoPi \div 2 THEN HalfSine(x)
        ELSE 0 - HalfSine(x - kTwoPi \div 2)

\* tanh(x) ~ x * (27 + x^2) / (27 + 9*x^2)
fast_tanhf(x) ==
    LET x2 == Mul(x, x)
    IN  Round(x * (27 * Unit + x2), 27 * Unit + 9 * x2)

\* s = (phase / kTwoPi) * 2 - 1; fast_tanhf(0.8 * s)
soft_saw(phase) ==
    LET s == Round(2 * Unit * phase, kTwoPi) - Unit
    IN  fast_tanhf(Mul(800, s))

\* tri = 2 * |phase / kTwoPi - 0.5| - 1; fast_tanhf(0.8 * tri)
soft_tri(phase) ==
    LET tri == 2 * Abs(Round(Unit * phase, kTwoPi) - Unit \div 2) - Unit
    IN  fast_tanhf(Mul(800, tri))

sine(phase) == sinf(phase)

\* The noise generator's static seed is a uint32_t, kept as two 16-bit
\* halves <<hi, lo>> so that every product stays below 2^31.
\* seed = 1664525 * seed + 1013904223  (mod 2^32)
\*   1664525    = 25 * 65536 + 26125
\*   1013904223 = 15470 * 65536 + 62303
NoiseSeedInit == <<4660, 22136>>

NextSeed(seed) ==
    LET hi == seed[1]
        lo == seed[2]
        t  == 26125 * lo
        lo1 == (t % 65536) + 62303
        hi1 == (t \div 65536) + ((25 * lo + 26125 * hi) % 65536)
               + 15470 + (lo1 \div 65536)
    IN  <<hi1 % 65536, lo1 % 65536>>

\* u = (seed & 0x00FFFFFF) / 16777216; 2u - 1.  The low 24 bits are taken
\* to 14 bits before the division.
NoiseValue(seed) ==
    LET low24 == (seed[1] % 256) * 65536 + seed[2]
    IN  Round(2 * Unit * (low24 \div 1024), 16384) - Unit

\* the step taken from the target instead of from the current value
smooth_step_fromTarget(current, target, coeff) ==
    target + Mul(coeff, target - current)

\* current + coeff * (target - current)
smooth_step(current, target, coeff) ==
    current + Mul(coeff, target - current)


\* powf(kMaxHz / kMinHz, nx) for nx in [0, Unit], result Unit-scaled: the
\* product of the binary roots of 20 selected by nx taken to sixteenths
\*   20^(1/2) = 4.472  20^(1/4) = 2.115  20^(1/8) = 1.454  20^(1/16) = 1.206
powf_ratio(nx) ==
    LET k  == Round(16 * nx, Unit)
        r1 == IF (k \div 8) % 2 = 1 THEN 4472 ELSE Unit
        r2 == IF (k \div 4) % 2 = 1 THEN Mul(r1, 2115) ELSE r1
        r3 == IF (k \div 2) % 2 = 1 THEN Mul(r2, 1454) ELSE r2
        r4 == IF k % 2 = 1 THEN Mul(r3, 1206) ELSE r3
    IN  IF k >= 16 THEN Round(Unit * kMaxHz, kMinHz) ELSE r4

\* Map mouse X (0..W) to logarithmic frequency between kMinHz and kMaxHz
map_x_to_hz(x, width) ==
    IF width <= 0 THEN DefaultHz
    ELSE LET nx == Max(0, Min(Unit, Round(Unit * x, width)))
         IN  Mul(kMinHz, powf_ratio(nx))

\* the gain taken from y / height without the clamp to [0, 1]
map_y_to_gain_noClamp(y, height) ==
    IF height <= 0 THEN 0 ELSE Unit - Round(Unit * y, height)

\* Map mouse Y (0..H) to gain (top loud, bottom quiet); clamp 0..1
map_y_to_gain(y, height) ==
    IF height <= 0 THEN 0
    ELSE LET ny == Max(0, Min(Unit, Round(Unit * y, height)))
         IN  Unit - ny

\* ------------------------------------------------------------------------
\* Bounds of the model
\* ------------------------------------------------------------------------

\* window messages handled before the window is destroyed
MaxMsgs == 3
\* calls of WaitForSingleObject the render thread makes
MaxWaits == 2
\* calls of ShutdownWASAPI made from outside InitWASAPI
MaxShutdowns == 2
\* applications of a function that is run on its own
MaxSteps == 6
\* the passes of the loop body of a run that goes round the delay line
MaxPasses == 100

\* what the device may hand back to InitWASAPI: GetMixFormat's
\* nSamplesPerSec and nChannels, and GetBufferSize's frame count
DeviceConfigs == { <<44100, 1, 1>>, <<48000, 2, 2>> }

\* what the window procedure is sent
MouseX == {450}
MouseY == {0}
ShiftStates == {TRUE}
ClientSizes == { <<900, 300>> }
\* the keys pressed: mute and quit (KeyMode gives what a digit key stores)
Keys == {"VK_SPACE", "VK_ESCAPE"}

\* what the window procedure can be sent: a pointer left of, above, inside,
\* right of and below the client area (a captured mouse reports them), a
\* client area of the window's size, minimised to nothing, inverted, and
\* one pixel wide, and keys the switch on wParam has no case for
AnyMouseX == {-200, 0, 450, 900, 1500}
AnyMouseY == {-50, 0, 150, 300, 700}
AnyClientSizes == { <<900, 300>>, <<0, 0>>, <<-10, -10>>, <<1, 1>> }
AnyKeys == {"1", "2", "3", "4", "5", "A", "VK_SPACE", "VK_ESCAPE"}

\* ------------------------------------------------------------------------
\* State
\* ------------------------------------------------------------------------

VARIABLES
    gParams,   \* SynthParams: the parameter bus (atomics)
    gWASAPI,   \* WasapiContext: TRUE for a non-null pointer or handle
    gSynth,    \* SynthState: the render thread's runtime state
    seed,      \* white_noise's static seed
    mixFmt,    \* the WAVEFORMATEX that pMixFmt points to
    cpc,       \* where the control thread (wWinMain) is
    quit,      \* the window was destroyed (WM_DESTROY handled)
    rpc,       \* where the render thread is in AudioThreadMain
    loc,       \* AudioThreadMain's locals
    dev,       \* the device: its stream, the region handed out
    out,       \* the write region: interleaved slots, "stale" until written
    hist,      \* history: counts of calls, acquisitions and releases
    arg        \* the inputs of a function that is run on its own

vars == <<gParams, gWASAPI, gSynth, seed, mixFmt, cpc, quit, rpc, loc, dev,
          out, hist, arg>>

\* the resources of WasapiContext that are acquired and released
Resources == {"coInit", "pEnum", "pDev", "pCli", "pMixFmt", "hEvent", "pRen",
              "hAudioThread"}

\* the resources AudioThreadMain reads
ThreadResources == {"hEvent", "pRen", "pCli", "pDev", "pMixFmt"}

\* A std::vector<float> is kept as its size and its nonzero elements: at
\* maps the indices that hold a nonzero value to it.
\* v.assign(n, 0.0f)
Assign(n) == [size |-> n, at |-> <<>>]

\* v[i]
At(v, i) == IF i \in DOMAIN v.at THEN v.at[i] ELSE 0

\* v[i] = x
Put(v, i, x) ==
    [v EXCEPT !.at = [k \in (IF x = 0 THEN DOMAIN v.at \ {i}
                                     ELSE DOMAIN v.at \cup {i}) |->
                         IF k = i THEN x ELSE v.at[k]]]

SynthParamsInit ==
    [targetHz |-> DefaultHz, targetGain |-> 0, mode |-> 1, mute |-> FALSE,
     vibratoDepth |-> 0]

\* the smoothed gain starting at full level
SynthStateInit_fullGain ==
    [phaseA |-> 0, phaseB |-> 0, smoothHz |-> DefaultHz, smoothGain |-> Unit,
     vibratoPhase |-> 0, delayL |-> 0, delayR |-> 0,
     delayBufL |-> Assign(0), delayBufR |-> Assign(0), delayIndex |-> 0]

SynthStateInit ==
    [phaseA |-> 0, phaseB |-> 0, smoothHz |-> DefaultHz, smoothGain |-> 0,
     vibratoPhase |-> 0, delayL |-> 0, delayR |-> 0,
     delayBufL |-> Assign(0), delayBufR |-> Assign(0), delayIndex |-> 0]

WasapiContextInit ==
    [pEnum |-> FALSE, pDev |-> FALSE, pCli |-> FALSE, pRen |-> FALSE,
     hEvent |-> FALSE, pMixFmt |-> FALSE, bufferFrames |-> 0,
     hAudioThread |-> FALSE, hAvrt |-> FALSE, running |-> FALSE,
     coInit |-> FALSE]

LocalsInit ==
    [sampleRate |-> 0, channels |-> 0, hr |-> "S_OK", waitRes |-> "none",
     padding |-> 0, framesToWrite |-> 0, i |-> 0,
     mute |-> FALSE, tgtGain |-> 0, gain |-> 0, sample |-> 0]

\* no function is run on its own: the program runs
ArgNone == [fn |-> "none"]

HistInit ==
    [acquired |-> [r \in Resources |-> 0],
     released |-> [r \in Resources |-> 0],
     initResult |-> "not called",
     shutdownCalls |-> 0,
     nMsgs |-> 0,
     waits |-> 0, buffers |-> 0, inFlight |-> FALSE,
     starts |-> 0, stops |-> 0, paddings |-> 0,
     acquires |-> 0, commits |-> 0,
     boosts |-> 0, reverts |-> 0,
     lastAcquire |-> 0, lastCommit |-> 0, samples |-> 0,
     failed |-> "none", atFailure |-> <<>>,
     stopStored |-> FALSE, stopAt |-> "none",
     waitsSinceStop |-> 0, buffersSinceStop |-> 0,
     muteSeen |-> FALSE, preMuteGain |-> 0, muteTrack |-> 0,
     firstUnmuted |-> FALSE, fromPreMute |-> 0, fromTrack |-> 0]

\* the globals other than the parameter bus as static initialisation
\* leaves them, before wWinMain
InitOther ==
    /\ gWASAPI = WasapiContextInit
    /\ gSynth = SynthStateInit
    /\ seed = NoiseSeedInit
    /\ mixFmt = <<0, 0>>
    /\ cpc = "start"
    /\ quit = FALSE
    /\ rpc = "none"
    /\ loc = LocalsInit
    /\ dev = [stream |-> "none", free |-> 0]
    /\ out = <<>>
    /\ hist = HistInit

Init ==
    /\ gParams = SynthParamsInit
    /\ InitOther
    /\ arg = ArgNone


\* ------------------------------------------------------------------------
\* WASAPI setup/teardown (control thread)
\* ------------------------------------------------------------------------

\* The process is alive: no thread has taken an access violation.
Alive == rpc # "fault"

\* The render thread exists and has not left AudioThreadMain.
ThreadInside == rpc \notin {"none", "returned", "fault"}

\* A control-side running.store(false): the context afterwards
StoreStop(c) == [c EXCEPT !.running = FALSE]

\* History of a control-side running.store(false) that lands while the
\* render thread is inside AudioThreadMain: the counts since it restart.
NoteStop(h) ==
    IF ThreadInside
    THEN [h EXCEPT !.stopStored = TRUE, !.stopAt = rpc,
                   !.waitsSinceStop = 0, !.buffersSinceStop = 0]
    ELSE h

\* The teardown helpers work on w = [c |-> the context, rel |-> the count of
\* releases made of each resource].

\* SafeRelease without "*ppT = nullptr": the pointer dangles
SafeRelease_keepsPointer(w, f) ==
    IF w.c[f]
    THEN [c |-> w.c, rel |-> [w.rel EXCEPT ![f] = @ + 1]]
    ELSE w

\* if (ppT && *ppT) { (*ppT)->Release(); *ppT = nullptr; }
SafeRelease(w, f) ==
    IF w.c[f]
    THEN [c |-> [w.c EXCEPT ![f] = FALSE],
          rel |-> [w.rel EXCEPT ![f] = @ + 1]]
    ELSE w

\* if (gWASAPI.x) { CloseHandle / CoTaskMemFree / CoUninitialize; x = null }
CloseIfSet(w, f) ==
    IF w.c[f]
    THEN [c |-> [w.c EXCEPT ![f] = FALSE],
          rel |-> [w.rel EXCEPT ![f] = @ + 1]]
    ELSE w

\* ShutdownWASAPI after the wait for the render thread (lines 323-343)
ShutdownTail(w) ==
    LET w1 == CloseIfSet(w, "hAudioThread")
        w2 == CloseIfSet(w1, "hEvent")
        w3 == SafeRelease(w2, "pRen")
        w4 == SafeRelease(w3, "pCli")
        w5 == SafeRelease(w4, "pDev")
        w6 == SafeRelease(w5, "pEnum")
        w7 == CloseIfSet(w6, "pMixFmt")
    IN  CloseIfSet(w7, "coInit")

\* The device after the teardown of context c into c2: the last reference
\* to the audio client going away takes its stream with it.
DeviceAfterRelease(d, c, c2) ==
    IF c.pCli /\ ~c2.pCli
    THEN [d EXCEPT !.stream = "released"]
    ELSE d

\* The steps of InitWASAPI that can fail, in order; InitOk is no failure.
\*  0 CoInitializeEx      1 CoCreateInstance   2 GetDefaultAudioEndpoint
\*  3 Activate            4 GetMixFormat       5 Initialize
\*  6 GetBufferSize       7 CreateEventW       8 SetEventHandle
\*  9 GetService         10 GetBuffer         11 ReleaseBuffer
\* 12 CreateThread
InitOk == 13

\* the step of InitWASAPI whose success sets each resource
AcquiredAt ==
    [r \in Resources |->
        CASE r = "coInit" -> 0
          [] r = "pEnum" -> 1
          [] r = "pDev" -> 2
          [] r = "pCli" -> 3
          [] r = "pMixFmt" -> 4
          [] r = "hEvent" -> 7
          [] r = "pRen" -> 9
          [] r = "hAudioThread" -> 12]

\* The context when InitWASAPI has passed every step before failAt.
ContextBefore(c, failAt, frames) ==
    [f \in DOMAIN c |->
        IF f \in Resources THEN (c[f] \/ AcquiredAt[f] < failAt)
        ELSE IF f = "bufferFrames"
             THEN (IF failAt > 6 THEN frames ELSE c[f])
             ELSE c[f]]

\* every failure returning as the first one does, without ShutdownWASAPI
InitFailure_noCleanup(w, failAt) == w

\* What InitWASAPI does when step failAt fails: the first failure returns
\* at once (line 350), every later one calls ShutdownWASAPI first.
InitFailure(w, failAt) ==
    IF failAt = 0 THEN w
    ELSE ShutdownTail([c |-> StoreStop(w.c), rel |-> w.rel])

\* bool InitWASAPI(HWND), called once by wWinMain
InitWASAPI ==
    /\ cpc = "start"
    /\ Alive
    /\ \E failAt \in 0..InitOk, cfg \in DeviceConfigs :
        LET fmt == <<cfg[1], cfg[2]>>
            c1 == ContextBefore(gWASAPI, failAt, cfg[3])
            w1 == [c |-> c1, rel |-> hist.released]
            w2 == IF failAt = InitOk THEN w1 ELSE InitFailure(w1, failAt)
            acq == [r \in Resources |->
                      hist.acquired[r]
                      + (IF AcquiredAt[r] < failAt THEN 1 ELSE 0)]
        IN  /\ gWASAPI' = w2.c
            /\ mixFmt' = IF failAt > 4 THEN fmt ELSE mixFmt
            /\ dev' = IF failAt > 3
                      THEN DeviceAfterRelease(
                               [dev EXCEPT !.stream = "stopped"], c1, w2.c)
                      ELSE dev
            /\ rpc' = IF failAt = InitOk THEN "l138" ELSE rpc
            /\ cpc' = IF failAt = InitOk THEN "msgloop" ELSE "initFailed"
            /\ hist' = [hist EXCEPT !.acquired = acq, !.released = w2.rel,
                                    !.initResult = IF failAt = InitOk THEN "true"
                                                    ELSE "false"]
    /\ UNCHANGED <<arg, gParams, gSynth, seed, quit, loc, out>>

\* Where ShutdownWASAPI may be called: by wWinMain once the message loop
\* has ended, and by a caller stopping an engine that is not running.
CanShutdown ==
    /\ Alive
    /\ hist.shutdownCalls < MaxShutdowns
    /\ \/ cpc \in {"start", "initFailed", "stopped"}
       \/ cpc = "msgloop" /\ quit

\* void ShutdownWASAPI(): lines 319-322.  With a thread handle it blocks in
\* WaitForSingleObject; with none it runs to its end.
ShutdownWASAPI ==
    /\ CanShutdown
    /\ LET c1 == StoreStop(gWASAPI)
           h1 == [NoteStop(hist) EXCEPT !.shutdownCalls = @ + 1]
       IN  IF gWASAPI.hAudioThread
           THEN /\ gWASAPI' = c1
                /\ hist' = h1
                /\ cpc' = "joining"
                /\ dev' = dev
           ELSE LET w == ShutdownTail([c |-> c1, rel |-> hist.released])
                IN  /\ gWASAPI' = w.c
                    /\ hist' = [h1 EXCEPT !.released = w.rel]
                    /\ cpc' = IF cpc = "start" THEN "start" ELSE "stopped"
                    /\ dev' = DeviceAfterRelease(dev, c1, w.c)
    /\ UNCHANGED <<arg, gParams, gSynth, seed, mixFmt, quit, rpc, loc, out>>

\* lines 323-343, whichever way the wait ended
ShutdownRest ==
    LET w == ShutdownTail([c |-> gWASAPI, rel |-> hist.released])
    IN  /\ gWASAPI' = w.c
        /\ hist' = [hist EXCEPT !.released = w.rel]
        /\ dev' = DeviceAfterRelease(dev, gWASAPI, w.c)
        /\ cpc' = "stopped"
        /\ UNCHANGED <<arg, gParams, gSynth, seed, mixFmt, quit, rpc, loc, out>>

\* WaitForSingleObject(hAudioThread, 2000) returns because the thread ended
ShutdownJoined ==
    /\ cpc = "joining"
    /\ rpc = "returned"
    /\ ShutdownRest

\* WaitForSingleObject(hAudioThread, 2000) returns WAIT_TIMEOUT: the thread
\* has not ended within 2000 ms.  The code does not look at the result.
ShutdownJoinTimeout ==
    /\ cpc = "joining"
    /\ ThreadInside
    /\ ShutdownRest

\* ------------------------------------------------------------------------
\* Win32 window and input (control thread)
\* ------------------------------------------------------------------------

CanDispatch ==
    /\ Alive
    /\ cpc = "msgloop"
    /\ ~quit
    /\ hist.nMsgs < MaxMsgs

\* case WM_DESTROY; also sent by DestroyWindow after a failed InitWASAPI
WM_DESTROY ==
    /\ Alive
    /\ ~quit
    /\ \/ cpc = "msgloop" /\ hist.nMsgs < MaxMsgs
       \/ cpc = "initFailed"
    /\ gWASAPI' = StoreStop(gWASAPI)
    /\ quit' = TRUE
    /\ hist' = [NoteStop(hist) EXCEPT !.nMsgs = @ + 1]
    /\ UNCHANGED <<arg, gParams, gSynth, seed, mixFmt, cpc, rpc, loc, dev, out>>

\* case WM_MOUSEMOVE, for a pointer at (x, y) in a client area of size rc
MouseMoveTo(x, y, rc, shift) ==
    /\ CanDispatch
    /\ gParams' = [gParams EXCEPT
                     !.targetHz = map_x_to_hz(x, rc[1]),
                     !.targetGain = map_y_to_gain(y, rc[2]),
                     !.vibratoDepth = IF shift THEN Unit ELSE 0]
    /\ hist' = [hist EXCEPT !.nMsgs = @ + 1]
    /\ UNCHANGED <<gWASAPI, gSynth, seed, mixFmt, cpc, quit, rpc, loc, dev,
                   out>>

\* case WM_MOUSEMOVE
WM_MOUSEMOVE ==
    /\ \E x \in MouseX, y \in MouseY, rc \in ClientSizes,
          shift \in ShiftStates :
        MouseMoveTo(x, y, rc, shift)
    /\ UNCHANGED arg

\* The mode a digit key stores.
KeyMode(wParam) ==
    CASE wParam = "1" -> 1
      [] wParam = "2" -> 2
      [] wParam = "3" -> 3
      [] wParam = "4" -> 4

\* mute done from the window procedure by clearing the smoothed gain
KeyDown_muteClearsGain(wParam) ==
    /\ CanDispatch
    /\ gParams' =
         IF wParam \in {"1", "2", "3", "4"}
         THEN [gParams EXCEPT !.mode = KeyMode(wParam)]
         ELSE IF wParam = "VK_SPACE"
              THEN [gParams EXCEPT !.mute = ~gParams.mute]
              ELSE gParams
    /\ gSynth' = IF wParam = "VK_SPACE"
                 THEN [gSynth EXCEPT !.smoothGain = 0]
                 ELSE gSynth
    /\ gWASAPI' = IF wParam = "VK_ESCAPE" THEN StoreStop(gWASAPI)
                  ELSE gWASAPI
    /\ quit' = (wParam = "VK_ESCAPE")
    /\ LET h1 == IF wParam = "VK_ESCAPE" THEN NoteStop(hist) ELSE hist
           h2 == IF wParam = "VK_SPACE" /\ ~gParams.mute
                 THEN [h1 EXCEPT !.muteSeen = TRUE,
                                 !.preMuteGain = gSynth.smoothGain,
                                 !.muteTrack = gSynth.smoothGain]
                 ELSE h1
       IN  hist' = [h2 EXCEPT !.nMsgs = @ + 1]
    /\ UNCHANGED <<seed, mixFmt, cpc, rpc, loc, dev, out>>

\* case WM_KEYDOWN for the key wParam.  VK_ESCAPE calls DestroyWindow, which
\* sends WM_DESTROY to this window procedure before it returns.
KeyDown(wParam) ==
    /\ CanDispatch
    /\ gParams' =
         IF wParam \in {"1", "2", "3", "4"}
         THEN [gParams EXCEPT !.mode = KeyMode(wParam)]
         ELSE IF wParam = "VK_SPACE"
              THEN [gParams EXCEPT !.mute = ~gParams.mute]
              ELSE gParams
    /\ gWASAPI' = IF wParam = "VK_ESCAPE" THEN StoreStop(gWASAPI)
                  ELSE gWASAPI
    /\ quit' = (wParam = "VK_ESCAPE")
    /\ LET h1 == IF wParam = "VK_ESCAPE" THEN NoteStop(hist) ELSE hist
           h2 == IF wParam = "VK_SPACE" /\ ~gParams.mute
                 THEN [h1 EXCEPT !.muteSeen = TRUE,
                                 !.preMuteGain = gSynth.smoothGain,
                                 !.muteTrack = gSynth.smoothGain]
                 ELSE h1
       IN  hist' = [h2 EXCEPT !.nMsgs = @ + 1]
    /\ UNCHANGED <<gSynth, seed, mixFmt, cpc, rpc, loc, dev, out>>

\* case WM_KEYDOWN
WM_KEYDOWN ==
    /\ \E wParam \in Keys : KeyDown(wParam)
    /\ UNCHANGED arg

\* ------------------------------------------------------------------------
\* Audio render thread: the per-sample pipeline (lines 177-247)
\* ------------------------------------------------------------------------

\* 0.05f and 0.075f
hzSmoothCoeff == 50
gainSmoothCoeff == 75

\* size_t(sampleRate * 0.012f)
DelaySamples(sampleRate) == (sampleRate * 12) \div 1000

\* the phase increments of one sample: kTwoPi * 5.5f * dt for the vibrato,
\* kTwoPi * hz * dt for the carrier, kTwoPi * (hz * 1.997f) * dt for the
\* modulator, dt = 1 / sampleRate
IncVibrato(sampleRate) == Round(kTwoPi * 55, 10 * sampleRate)
\* (hz is in HzUnit: the scale is divided out of kTwoPi before the product)
IncA(hz, sampleRate) == Round((kTwoPi \div HzUnit) * hz, sampleRate)
IncB(hz, sampleRate) ==
    Round((kTwoPi \div HzUnit) * Mul(hz, 1997), sampleRate)

\* the wrap left out
AdvancePhase_noWrap(phase, inc) == phase + inc

\* phase += inc; if (phase >= kTwoPi) phase -= kTwoPi;
AdvancePhase(phase, inc) ==
    IF phase + inc >= kTwoPi THEN phase + inc - kTwoPi ELSE phase + inc

\* the ring product added to the whole sine: 1.0 * aSine + 0.45 * ring
ModeSample_unscaledRing(mode, phaseA, phaseB, n) ==
    LET aSine == sine(phaseA)
        bSine == sine(phaseB)
    IN  CASE mode = 1 -> aSine
          [] mode = 2 -> aSine + Mul(450, Mul(aSine, bSine))
          [] mode = 3 -> fast_tanhf(Mul(850, aSine) + Mul(250, n))
          [] mode = 4 -> Mul(600, soft_saw(phaseA))
                         + Mul(400, soft_tri(phaseA))
          [] OTHER -> aSine

\* the default case leaving sample at its initial 0.0f
ModeSample_defaultSilence(mode, phaseA, phaseB, n) ==
    LET aSine == sine(phaseA)
        bSine == sine(phaseB)
    IN  CASE mode = 1 -> aSine
          [] mode = 2 -> Mul(700, aSine) + Mul(450, Mul(aSine, bSine))
          [] mode = 3 -> fast_tanhf(Mul(850, aSine) + Mul(250, n))
          [] mode = 4 -> Mul(600, soft_saw(phaseA))
                         + Mul(400, soft_tri(phaseA))
          [] OTHER -> 0

\* the switch on mode (lines 208-227); n is white_noise()'s value
ModeSample(mode, phaseA, phaseB, n) ==
    LET aSine == sine(phaseA)
        bSine == sine(phaseB)
    IN  CASE mode = 1 -> aSine
          [] mode = 2 -> Mul(700, aSine) + Mul(450, Mul(aSine, bSine))
          [] mode = 3 -> fast_tanhf(Mul(850, aSine) + Mul(250, n))
          [] mode = 4 -> Mul(600, soft_saw(phaseA))
                         + Mul(400, soft_tri(phaseA))
          [] OTHER -> aSine

\* mute left out of the gain
AppliedGain_ignoresMute(mute, smoothGain) == smoothGain

\* float gain = mute ? 0.0f : gSynth.smoothGain;
AppliedGain(mute, smoothGain) == IF mute THEN 0 ELSE smoothGain

\* mute clearing the smoothed gain
NextSmoothGain_resetOnMute(smoothGain, tgtGain, mute) ==
    IF mute THEN 0 ELSE smooth_step(smoothGain, tgtGain, gainSmoothCoeff)

\* gSynth.smoothGain = smooth_step(gSynth.smoothGain, tgtGain, ...);
\* mute is read on line 180 and plays no part here
NextSmoothGain(smoothGain, tgtGain, mute) ==
    smooth_step(smoothGain, tgtGain, gainSmoothCoeff)

\* One pass of the for loop's body over synth state s with the targets p
\* read from the parameter bus, the noise seed sd and the sample rate:
\* the new state and seed, and the frame it writes.
\* the cursor running off the end of the delay line
NextDelayIndex_noWrap(di, size) == di + 1

\* gSynth.delayIndex = (di + 1) % gSynth.delayBufL.size();
NextDelayIndex(di, size) == (di + 1) % size

Sample(s, p, sd, sampleRate) ==
    LET smoothHz   == smooth_step(s.smoothHz, p.targetHz, hzSmoothCoeff)
        smoothGain == NextSmoothGain(s.smoothGain, p.targetGain, p.mute)
        vibPhase   == AdvancePhase(s.vibratoPhase, IncVibrato(sampleRate))
        vibrato    == IF p.vibratoDepth > 0
                      THEN Mul(Mul(10, p.vibratoDepth), sinf(vibPhase))
                      ELSE 0
        hz         == Round(smoothHz * (Unit + vibrato), Unit)
        incA       == IncA(hz, sampleRate)
        incB       == IncB(hz, sampleRate)
        phaseA     == AdvancePhase(s.phaseA, incA)
        phaseB     == AdvancePhase(s.phaseB, incB)
        sd2        == IF p.mode = 3 THEN NextSeed(sd) ELSE sd
        sample     == ModeSample(p.mode, phaseA, phaseB, NoiseValue(sd2))
        gain       == AppliedGain(p.mute, smoothGain)
        dryL       == Mul(sample, gain)
        dryR       == Mul(sample, gain)
        di         == s.delayIndex
        dL         == At(s.delayBufL, di)
        dR         == At(s.delayBufR, di)
    IN  [synth |-> [s EXCEPT
                      !.smoothHz = smoothHz,
                      !.smoothGain = smoothGain,
                      !.vibratoPhase = vibPhase,
                      !.phaseA = phaseA,
                      !.phaseB = phaseB,
                      !.delayBufL = Put(@, di, Mul(850, dL) + Mul(150, dryL)),
                      !.delayBufR = Put(@, di, Mul(850, dR) + Mul(150, dryR)),
                      !.delayIndex = NextDelayIndex(di, s.delayBufL.size)],
         seed |-> sd2,
         sample |-> sample,
         gain |-> gain,
         outL |-> Mul(850, dryL) + Mul(150, dR),
         outR |-> Mul(850, dryR) + Mul(150, dL)]

\* A slot of the write region: <<x>> once x was written to it, Stale
\* while it holds what the device left there.
Stale == <<>>

\* out[i * channels + 0] = outL; if (channels > 1) out[i * channels + 1] = outR;
WriteFrame(o, i, channels, outL, outR) ==
    [k \in DOMAIN o |->
        IF k = i * channels + 1 THEN <<outL>>
        ELSE IF channels > 1 /\ k = i * channels + 2 THEN <<outR>>
        ELSE o[k]]


\* ------------------------------------------------------------------------
\* Audio render thread: AudioThreadMain (lines 135-258)
\* rpc names the line the thread is about to execute.
\* ------------------------------------------------------------------------

\* The counts a protocol failure is remembered with.
CallCounts(h) == <<h.starts, h.waits, h.paddings, h.acquires, h.commits>>

\* History of a failed device call.
NoteFailure(h, call) ==
    [h EXCEPT !.failed = call, !.atFailure = CallCounts(h)]

\* "return 1" in place of "goto done" or "break"
AfterFailure_returns == "returned"

\* "continue" in place of "break": the loop tries again
AfterFailure_retry == "l159"

\* Where the loop goes when a device call fails: "goto done" or "break".
AfterFailure == "done"

\* line 138: AvSetMmThreadCharacteristicsW gives a handle, or null
Boost ==
    /\ rpc = "l138"
    /\ \E h \in BOOLEAN :
        /\ gWASAPI' = [gWASAPI EXCEPT !.hAvrt = h]
        /\ hist' = [hist EXCEPT !.boosts = @ + (IF h THEN 1 ELSE 0)]
    /\ rpc' = "l140"
    /\ UNCHANGED <<arg,
                   gParams, gSynth, seed, mixFmt, cpc, quit, loc, dev, out>>

\* line 140: gWASAPI.running.store(true)
SetRunning ==
    /\ rpc = "l140"
    /\ gWASAPI' = [gWASAPI EXCEPT !.running = TRUE]
    /\ rpc' = "l141"
    /\ UNCHANGED <<arg, gParams, gSynth, seed, mixFmt, cpc, quit, loc, dev, out,
                   hist>>

\* lines 141-153: the format is read, the delay lines are sized
Setup ==
    /\ rpc = "l141"
    /\ gWASAPI.pMixFmt
    /\ loc' = [loc EXCEPT !.sampleRate = mixFmt[1], !.channels = mixFmt[2]]
    /\ gSynth' = [gSynth EXCEPT
                    !.delayBufL = Assign(DelaySamples(mixFmt[1])),
                    !.delayBufR = Assign(DelaySamples(mixFmt[1])),
                    !.delayIndex = 0]
    /\ rpc' = "l156"
    /\ UNCHANGED <<arg,
                   gParams, gWASAPI, seed, mixFmt, cpc, quit, dev, out, hist>>

\* lines 156-157: pCli->Start()
Start ==
    /\ rpc = "l156"
    /\ gWASAPI.pCli
    /\ \E ok \in BOOLEAN :
        /\ loc' = [loc EXCEPT !.hr = IF ok THEN "S_OK" ELSE "E_FAIL"]
        /\ dev' = IF ok THEN [dev EXCEPT !.stream = "started"] ELSE dev
        /\ rpc' = IF ok THEN "l159" ELSE AfterFailure
        /\ hist' = LET h == [hist EXCEPT !.starts = @ + 1]
                   IN  IF ok THEN h ELSE NoteFailure(h, "Start")
    /\ UNCHANGED <<arg, gParams, gWASAPI, gSynth, seed, mixFmt, cpc, quit, out>>

\* line 159: while (gWASAPI.running.load())
LoopTest ==
    /\ rpc = "l159"
    /\ rpc' = IF gWASAPI.running THEN "l160" ELSE "done"
    /\ UNCHANGED <<arg,
                   gParams, gWASAPI, gSynth, seed, mixFmt, cpc, quit, loc, dev,
                   out, hist>>

\* The results WaitForSingleObject(hEvent, 5) can give.
WaitResults ==
    IF gWASAPI.hEvent THEN {"WAIT_OBJECT_0", "WAIT_TIMEOUT"}
    ELSE {"WAIT_FAILED"}

\* lines 160-161: the wait, and "continue" unless the event was signalled
Wait ==
    /\ rpc = "l160"
    /\ hist.waits < MaxWaits
    /\ \E waitRes \in WaitResults :
        /\ loc' = [loc EXCEPT !.waitRes = waitRes]
        /\ rpc' = IF waitRes # "WAIT_OBJECT_0" THEN "l159" ELSE "l164"
    /\ hist' = [hist EXCEPT !.waits = @ + 1, !.waitsSinceStop = @ + 1,
                            !.samples = 0]
    /\ UNCHANGED <<arg,
                   gParams, gWASAPI, gSynth, seed, mixFmt, cpc, quit, dev, out>>

\* UINT32 framesToWrite = gWASAPI.bufferFrames - padding;
FramesToWrite(bufferFrames, padding) == bufferFrames - padding

\* the test for zero left out: GetBuffer(0) is called
AfterPadding_noZeroTest(framesToWrite) == "l171"

\* if (framesToWrite == 0) continue;
AfterPadding(framesToWrite) == IF framesToWrite = 0 THEN "l159" ELSE "l171"

\* lines 163-168: GetCurrentPadding, framesToWrite, "continue" on zero
GetCurrentPadding ==
    /\ rpc = "l164"
    /\ gWASAPI.pCli
    /\ \/ \E free \in 0..gWASAPI.bufferFrames :
            LET padding == gWASAPI.bufferFrames - free
                n == FramesToWrite(gWASAPI.bufferFrames, padding)
            IN  /\ loc' = [loc EXCEPT !.hr = "S_OK", !.padding = padding,
                              !.framesToWrite = n]
                /\ dev' = [dev EXCEPT !.free = free]
                /\ rpc' = AfterPadding(n)
                /\ hist' = [hist EXCEPT !.paddings = @ + 1]
       \/ /\ loc' = [loc EXCEPT !.hr = "E_FAIL", !.padding = 0]
          /\ dev' = dev
          /\ rpc' = AfterFailure
          /\ hist' = NoteFailure([hist EXCEPT !.paddings = @ + 1],
                                 "GetCurrentPadding")
    /\ UNCHANGED <<arg, gParams, gWASAPI, gSynth, seed, mixFmt, cpc, quit, out>>

\* lines 170-174: pRen->GetBuffer(framesToWrite, &pData)
GetBuffer ==
    /\ rpc = "l171"
    /\ gWASAPI.pRen
    /\ \/ /\ loc' = [loc EXCEPT !.hr = "S_OK", !.i = 0]
          /\ out' = [k \in 1..(loc.framesToWrite * loc.channels) |-> Stale]
          /\ rpc' = "l176"
          /\ hist' = [hist EXCEPT !.acquires = @ + 1,
                                  !.lastAcquire = loc.framesToWrite,
                                  !.buffers = @ + 1,
                                  !.inFlight = TRUE,
                                  !.buffersSinceStop = @ + 1]
       \/ /\ loc' = [loc EXCEPT !.hr = "E_FAIL"]
          /\ out' = out
          /\ rpc' = AfterFailure
          /\ hist' = NoteFailure([hist EXCEPT !.acquires = @ + 1,
                                      !.lastAcquire = loc.framesToWrite],
                                 "GetBuffer")
    /\ UNCHANGED <<arg, gParams, gWASAPI, gSynth, seed, mixFmt, cpc, quit, dev>>

\* the for loop also leaving when the running flag has gone false
AfterSample_stopsMidBuffer(i, n) ==
    IF ~gWASAPI.running THEN "l159"
    ELSE IF i + 1 < n THEN "l176" ELSE "l250"

\* Where the for loop goes after the body has run for index i of n: the
\* loop reads nothing but i and framesToWrite.
AfterSample(i, n) == IF i + 1 < n THEN "l176" ELSE "l250"

\* lines 176-248: one pass of the for loop
SampleStep ==
    /\ rpc = "l176"
    /\ gSynth.delayBufL.size > 0
    /\ LET r == Sample(gSynth, gParams, seed, loc.sampleRate)
       IN  /\ gSynth' = r.synth
           /\ seed' = r.seed
           /\ out' = WriteFrame(out, loc.i, loc.channels, r.outL, r.outR)
           /\ loc' = [loc EXCEPT !.i = @ + 1, !.mute = gParams.mute,
                         !.tgtGain = gParams.targetGain, !.gain = r.gain,
                         !.sample = r.sample]
           /\ hist' = [hist EXCEPT
                 !.samples = @ + 1,
                 !.muteSeen = gParams.mute,
                 !.firstUnmuted = (~gParams.mute /\ hist.muteSeen),
                 !.fromPreMute = smooth_step(hist.preMuteGain,
                                     gParams.targetGain, gainSmoothCoeff),
                 !.fromTrack = smooth_step(hist.muteTrack,
                                     gParams.targetGain, gainSmoothCoeff),
                 !.muteTrack = IF gParams.mute
                               THEN smooth_step(@, gParams.targetGain,
                                                gainSmoothCoeff)
                               ELSE @]
    /\ rpc' = AfterSample(loc.i, loc.framesToWrite)
    /\ UNCHANGED <<arg, gParams, gWASAPI, mixFmt, cpc, quit, dev>>

\* the whole buffer committed, as the pre-roll of InitWASAPI does
CommitCount_wholeBuffer(framesToWrite) == gWASAPI.bufferFrames

\* The frame count the loop commits.
CommitCount(framesToWrite) == framesToWrite

\* lines 250-251: pRen->ReleaseBuffer(framesToWrite, 0)
ReleaseBuffer ==
    /\ rpc = "l250"
    /\ gWASAPI.pRen
    /\ \E ok \in BOOLEAN :
        /\ loc' = [loc EXCEPT !.hr = IF ok THEN "S_OK" ELSE "E_FAIL"]
        /\ rpc' = IF ok THEN "l159" ELSE AfterFailure
        /\ hist' = LET h == [hist EXCEPT
                              !.commits = @ + 1,
                              !.lastCommit = CommitCount(loc.framesToWrite)]
                       h2 == [h EXCEPT !.inFlight = FALSE]
                   IN  IF ok THEN h2 ELSE NoteFailure(h2, "ReleaseBuffer")
    /\ out' = <<>>
    /\ UNCHANGED <<arg, gParams, gWASAPI, gSynth, seed, mixFmt, cpc, quit, dev>>

\* lines 254-257: done: Stop the stream, revert the boost, return
Done ==
    /\ rpc = "done"
    /\ dev' = IF gWASAPI.pCli THEN [dev EXCEPT !.stream = "stopped"] ELSE dev
    /\ gWASAPI' = [gWASAPI EXCEPT !.hAvrt = FALSE]
    /\ hist' = [hist EXCEPT
                  !.stops = @ + (IF gWASAPI.pCli THEN 1 ELSE 0),
                  !.reverts = @ + (IF gWASAPI.hAvrt THEN 1 ELSE 0)]
    /\ rpc' = "returned"
    /\ UNCHANGED <<arg, gParams, gSynth, seed, mixFmt, cpc, quit, loc, out>>

\* The thread uses a resource ShutdownWASAPI has released under it: a read
\* through the freed format, a call through a null interface pointer, a
\* write into the region of a released render client, a division by the
\* length of an empty delay line.  The process takes an access violation.
AccessViolation ==
    /\ \/ rpc = "l141" /\ ~gWASAPI.pMixFmt
       \/ rpc \in {"l156", "l164"} /\ ~gWASAPI.pCli
       \/ rpc \in {"l171", "l176", "l250"} /\ ~gWASAPI.pRen
    /\ rpc' = "fault"
    /\ UNCHANGED <<arg,
                   gParams, gWASAPI, gSynth, seed, mixFmt, cpc, quit, loc, dev,
                   out, hist>>

\* ------------------------------------------------------------------------
\* The program
\* ------------------------------------------------------------------------

Control ==
    \/ InitWASAPI
    \/ WM_DESTROY
    \/ WM_MOUSEMOVE
    \/ WM_KEYDOWN
    \/ ShutdownWASAPI
    \/ ShutdownJoined
    \/ ShutdownJoinTimeout

Render ==
    \/ Boost
    \/ SetRunning
    \/ Setup
    \/ Start
    \/ LoopTest
    \/ Wait
    \/ GetCurrentPadding
    \/ GetBuffer
    \/ SampleStep
    \/ ReleaseBuffer
    \/ Done
    \/ AccessViolation

Next == Control \/ Render

Spec == Init /\ [][Next]_vars


\* ------------------------------------------------------------------------
\* The window procedure under every input: InitWASAPI, then mouse moves and
\* keys from the wide input sets, the render thread not yet scheduled
\* ------------------------------------------------------------------------

WM_MOUSEMOVE_any ==
    \E x \in AnyMouseX, y \in AnyMouseY, rc \in AnyClientSizes,
       shift \in BOOLEAN :
        /\ MouseMoveTo(x, y, rc, shift)
        /\ arg' = [fn |-> "WM_MOUSEMOVE", x |-> x, y |-> y, rc |-> rc]

WM_KEYDOWN_any ==
    \E wParam \in AnyKeys :
        /\ KeyDown(wParam)
        /\ arg' = [fn |-> "WM_KEYDOWN", wParam |-> wParam]

NextInput ==
    \/ InitWASAPI
    \/ WM_MOUSEMOVE_any
    \/ WM_KEYDOWN_any

SpecInput == Init /\ [][NextInput]_vars

\* ------------------------------------------------------------------------
\* The per-sample functions run on their own: the inputs are drawn in the
\* initial state and kept in arg, each step applies the function once more
\* ------------------------------------------------------------------------

\* nSamplesPerSec of the mix formats a render endpoint is opened with
DeviceSampleRates == {8000, 11025, 16000, 22050, 32000, 44100, 48000, 88200,
                      96000, 176400, 192000}

\* the least and the greatest hz of line 193: smoothHz is within
\* [kMinHz, kMaxHz] and vibrato within [-0.01, 0.01]
HzExtremes == {Round(kMinHz * 990, Unit), Round(kMaxHz * 1010, Unit)}

\* the carrier and modulator increments of the loop at the extremes
LoopIncrements ==
    UNION { {IncA(hz, r), IncB(hz, r)} :
              hz \in HzExtremes, r \in {8000, 48000} }

\* phase increments: those of the loop, half a turn and just below, a
\* whole turn, and more than a turn
Increments == LoopIncrements \cup {17999, 18000, 36000, 50000, 72000}
VibratoIncrements == {IncVibrato(48000), IncVibrato(8000)}

PhaseInputs ==
    { [fn |-> "AdvancePhase", incA |-> a, incB |-> b, incV |-> v,
       steps |-> 0] :
        a \in Increments, b \in Increments, v \in VibratoIncrements }

\* start values, targets and coefficients in (0, 1) of the smoother
SmoothStarts == {-500, 0, 3, 1000, 4400}
SmoothTargets == {0, 7, 1000, 20000}
SmoothCoeffs == {1, hzSmoothCoeff, gainSmoothCoeff, 500, 999}

SmoothInputs ==
    { [fn |-> "smooth_step", start |-> c, prev |-> c, current |-> c,
       target |-> t, coeff |-> k, steps |-> 0] :
        c \in SmoothStarts, t \in SmoothTargets, k \in SmoothCoeffs }

\* modes the switch has a case for, phases over the period with the
\* quarter turns, and values of white_noise() over [-1, 1]
Modes == {1, 2, 3, 4}
PhaseGrid == {3000 * k : k \in 0..11} \cup {kTwoPi - 1}
NoiseValues == {0 - Unit, -500, 0, 500, Unit}

ModeInputs ==
    { [fn |-> "ModeSample", mode |-> m, phaseA |-> a, phaseB |-> b,
       n |-> n, sample |-> 0, steps |-> 0] :
        m \in Modes, a \in PhaseGrid, b \in PhaseGrid, n \in NoiseValues }

\* values of mode the switch has no case for, with two it has; the targets
\* the loop body is run with
OtherModes == {-1, 0, 5, 7}
BodyInputs ==
    { [fn |-> "Sample", mode |-> m, targetHz |-> hz, sampleRate |-> r,
       sample |-> 0, steps |-> 0, limit |-> MaxSteps] :
        m \in OtherModes \cup {1, 3}, hz \in {DefaultHz, kMaxHz},
        r \in {8000, 48000} }
    \cup
    \* one run long enough to go round the 96 slots a rate of 8000 gives
    { [fn |-> "Sample", mode |-> 1, targetHz |-> DefaultHz,
       sampleRate |-> 8000, sample |-> 0, steps |-> 0,
       limit |-> MaxPasses] }

\* the parameter bus a run is made with
ParamsOf(a) ==
    IF a.fn = "Sample"
    THEN [SynthParamsInit EXCEPT !.mode = a.mode, !.targetHz = a.targetHz,
                                 !.targetGain = Unit]
    ELSE SynthParamsInit

\* nChannels of the mix formats a render endpoint is opened with: mono,
\* stereo, 2.1, 5.1 and 7.1
ChannelCounts == {1, 2, 3, 6, 8}

\* framesToWrite of a wake
FrameCounts == {1, 2, 3}

\* the regions the for loop fills, frame i next
FrameInputs ==
    { [fn |-> "WriteFrame", channels |-> c, frames |-> n, i |-> 0] :
        c \in ChannelCounts, n \in FrameCounts }

InitDsp ==
    /\ InitOther
    /\ arg \in PhaseInputs \cup SmoothInputs \cup ModeInputs \cup BodyInputs
                \cup FrameInputs
    /\ gParams = ParamsOf(arg)

\* lines 189-190 and 198-201 with the increments of arg
PhaseStep ==
    /\ arg.fn = "AdvancePhase"
    /\ arg.steps < MaxSteps
    /\ gSynth' = [gSynth EXCEPT
                    !.vibratoPhase = AdvancePhase(@, arg.incV),
                    !.phaseA = AdvancePhase(@, arg.incA),
                    !.phaseB = AdvancePhase(@, arg.incB)]
    /\ arg' = [arg EXCEPT !.steps = @ + 1]
    /\ UNCHANGED <<gParams, gWASAPI, seed, mixFmt, cpc, quit, rpc, loc, dev,
                   out, hist>>

\* lines 185-186 with the target and the coefficient of arg
SmoothStep ==
    /\ arg.fn = "smooth_step"
    /\ arg.steps < MaxSteps
    /\ arg' = [arg EXCEPT
                 !.prev = arg.current,
                 !.current = smooth_step(arg.current, arg.target, arg.coeff),
                 !.steps = @ + 1]
    /\ UNCHANGED <<gParams, gWASAPI, gSynth, seed, mixFmt, cpc, quit, rpc,
                   loc, dev, out, hist>>

\* lines 208-227 with the mode, the phases and the noise value of arg
ModeStep ==
    /\ arg.fn = "ModeSample"
    /\ arg.steps = 0
    /\ arg' = [arg EXCEPT
                 !.sample = ModeSample(arg.mode, arg.phaseA, arg.phaseB,
                                       arg.n),
                 !.steps = 1]
    /\ UNCHANGED <<gParams, gWASAPI, gSynth, seed, mixFmt, cpc, quit, rpc,
                   loc, dev, out, hist>>

\* lines 146-149 for the sample rate of arg, before the first pass
BodySetup ==
    /\ arg.fn = "Sample"
    /\ arg.steps = 0
    /\ gSynth.delayBufL.size = 0
    /\ gSynth' = [gSynth EXCEPT
                    !.delayBufL = Assign(DelaySamples(arg.sampleRate)),
                    !.delayBufR = Assign(DelaySamples(arg.sampleRate)),
                    !.delayIndex = 0]
    /\ UNCHANGED <<arg, gParams, gWASAPI, seed, mixFmt, cpc, quit, rpc, loc,
                   dev, out, hist>>

\* lines 177-243: one pass of the for loop's body
BodyStep ==
    /\ arg.fn = "Sample"
    /\ arg.steps < arg.limit
    /\ gSynth.delayBufL.size > 0
    /\ LET r == Sample(gSynth, gParams, seed, arg.sampleRate)
       IN  /\ gSynth' = r.synth
           /\ seed' = r.seed
           /\ arg' = [arg EXCEPT !.sample = r.sample, !.steps = @ + 1]
    /\ UNCHANGED <<gParams, gWASAPI, mixFmt, cpc, quit, rpc, loc, dev, out,
                   hist>>

\* lines 170-174 for the frames and channels of arg: the region acquired
FrameAcquire ==
    /\ arg.fn = "WriteFrame"
    /\ out = <<>>
    /\ out' = [k \in 1..(arg.frames * arg.channels) |-> Stale]
    /\ UNCHANGED <<arg, gParams, gWASAPI, gSynth, seed, mixFmt, cpc, quit,
                   rpc, loc, dev, hist>>

\* lines 245-247 for frame i of the region, with the silence the loop
\* makes at gain 0; i reaching frames is the commit of line 250
FrameStep ==
    /\ arg.fn = "WriteFrame"
    /\ out # <<>>
    /\ arg.i < arg.frames
    /\ out' = WriteFrame(out, arg.i, arg.channels, 0, 0)
    /\ arg' = [arg EXCEPT !.i = @ + 1]
    /\ UNCHANGED <<gParams, gWASAPI, gSynth, seed, mixFmt, cpc, quit, rpc,
                   loc, dev, hist>>

NextDsp ==
    \/ PhaseStep
    \/ SmoothStep
    \/ ModeStep
    \/ BodySetup
    \/ BodyStep
    \/ FrameAcquire
    \/ FrameStep

SpecDsp == InitDsp /\ [][NextDsp]_vars

\* ------------------------------------------------------------------------
\* Properties
\* ------------------------------------------------------------------------

\* The control-side stop store landed when the render thread had already
\* stored true on line 140.
StopAfterLine140 == hist.stopStored /\ hist.stopAt \notin {"l138", "l140"}

\* C1: once the control side has stored false into the running flag, at
\* whatever point of the render thread's execution, the thread leaves its
\* loop within one wait and at most one buffer: after the store it starts
\* at most one WaitForSingleObject and acquires at most one region.
C1_StopObserved ==
    hist.stopStored =>
        /\ hist.waitsSinceStop <= 1
        /\ hist.buffersSinceStop <= 1

\* C1, what the code does give: a stop stored after line 140 is observed
\* within one wait and one buffer.
C1_StopAfterLine140Observed ==
    StopAfterLine140 =>
        /\ hist.waitsSinceStop <= 1
        /\ hist.buffersSinceStop <= 1

\* C2: in no state is the render thread inside AudioThreadMain while a
\* resource it reads (event, render client, audio client, device, mix
\* format) has been released.
C2_TeardownOrder ==
    ThreadInside => \A r \in ThreadResources : hist.released[r] = 0

\* C3: after a failed device call (Start, GetCurrentPadding, GetBuffer,
\* ReleaseBuffer) the loop is left for good: the thread is at done or has
\* returned, it has made no device call since the failure, and once it has
\* returned the device stream is not running.
C3_FailureIsFatal ==
    hist.failed # "none" =>
        /\ rpc \in {"done", "returned"}
        /\ CallCounts(hist) = hist.atFailure
        /\ rpc = "returned" => dev.stream \in {"stopped", "released"}

C3_Witness ==
    /\ hist.failed = "ReleaseBuffer"
    /\ rpc = "returned"
    /\ dev.stream = "stopped"
    /\ hist.stops = 1

\* The step is a wake that found no free frame: GetCurrentPadding
\* succeeded with padding equal to bufferFrames.
ZeroFrameWake ==
    /\ rpc = "l164"
    /\ hist'.paddings = hist.paddings + 1
    /\ loc'.hr = "S_OK"
    /\ loc'.padding = gWASAPI.bufferFrames

\* C4: a wake with zero available frames is a no-op: no acquire, no
\* commit, no change of the synth state, of the noise seed or of the
\* region, and the thread is back at the loop's test, not at done.
C4_ZeroWakeNoOp ==
    [][ZeroFrameWake =>
          /\ rpc' = "l159"
          /\ gSynth' = gSynth
          /\ seed' = seed
          /\ out' = out
          /\ hist'.acquires = hist.acquires
          /\ hist'.commits = hist.commits
          /\ hist'.inFlight = hist.inFlight]_vars

C4_Witness ==
    /\ rpc = "l159"
    /\ loc.waitRes = "WAIT_OBJECT_0"
    /\ loc.hr = "S_OK"
    /\ loc.padding = gWASAPI.bufferFrames
    /\ loc.framesToWrite = 0
    /\ hist.paddings = 2
    /\ hist.samples = 0

\* C5: on a wake with N > 0 free frames (dev.free is what the device
\* reported), GetBuffer is asked for N frames, the for loop's body runs N
\* times, and ReleaseBuffer commits N frames.
C5_FrameCounts ==
    /\ [][hist'.acquires = hist.acquires + 1 =>
            /\ dev.free > 0
            /\ hist'.lastAcquire = dev.free]_vars
    /\ [][hist'.commits = hist.commits + 1 =>
            /\ hist.lastAcquire = dev.free
            /\ hist.samples = dev.free
            /\ loc.i = dev.free
            /\ hist'.lastCommit = dev.free]_vars

C5_Witness ==
    /\ rpc = "l159"
    /\ hist.commits = 1
    /\ gWASAPI.bufferFrames = 2
    /\ dev.free = 1
    /\ hist.lastCommit = 1
    /\ hist.samples = 1

\* C6: no buffer is abandoned: wherever the thread reads the running flag
\* (l159), waits, queries, acquires or has left the loop, no acquired
\* region is uncommitted; every region acquired so far has had exactly one
\* commit, bar the one in flight.
C6_NoBufferAbandoned ==
    /\ rpc \in {"l159", "l160", "l164", "l171", "done", "returned"}
          => ~hist.inFlight
    /\ hist.buffers - hist.commits = (IF hist.inFlight THEN 1 ELSE 0)

\* a stop stored while the for loop ran, and the loop now at the commit
\* with every frame synthesized
C6_Witness ==
    /\ rpc = "l250"
    /\ hist.stopStored
    /\ hist.stopAt = "l176"
    /\ ~gWASAPI.running
    /\ hist.inFlight
    /\ hist.samples = loc.framesToWrite
    /\ loc.framesToWrite = 2

\* C7: a sample that read mute as true is given gain zero whatever the
\* smoothed gain is, and the smoothed gain only ever changes by one
\* smoothing step toward the gain target, muted or not.
C7_MuteGain ==
    /\ [](loc.mute => loc.gain = 0)
    /\ [][\/ gSynth'.smoothGain # gSynth.smoothGain
          \/ hist'.samples = hist.samples + 1
            => gSynth'.smoothGain =
                  smooth_step(gSynth.smoothGain, gParams.targetGain,
                              gainSmoothCoeff)]_vars

C7_Witness ==
    /\ hist.samples > 0
    /\ loc.mute
    /\ loc.gain = 0
    /\ gSynth.smoothGain > 0

\* C8 as claimed: the gain of the first un-muted sample is one smoothing
\* step from the smoothed gain held when mute was asserted.
C8_ResumesFromValueAtMute ==
    hist.firstUnmuted => loc.gain = hist.fromPreMute

\* C8 as amended: smoothing also runs on muted samples, so the gain of the
\* first un-muted sample is one smoothing step from the value held when
\* mute was asserted advanced by one smoothing step per muted sample; it
\* does not restart from zero.
C8_ResumesFromSmoothedValue ==
    hist.firstUnmuted =>
        /\ loc.gain = hist.fromTrack
        /\ loc.gain = gSynth.smoothGain

\* un-muted after a mute during which the smoothed gain moved
C8_Witness ==
    /\ hist.firstUnmuted
    /\ hist.samples > 0
    /\ hist.muteTrack # hist.preMuteGain
    /\ loc.gain > 0

\* The engine is stopped: the flag is false and the context holds nothing.
EngineStopped ==
    /\ ~gWASAPI.running
    /\ \A r \in Resources : ~gWASAPI[r]

\* C9: ShutdownWASAPI on a stopped (or never started) engine changes no
\* context field, releases nothing and does not wait; and nothing is ever
\* released more often than it was acquired.
C9_IdempotentStop ==
    /\ [][hist'.shutdownCalls = hist.shutdownCalls + 1 /\ EngineStopped =>
            /\ gWASAPI' = gWASAPI
            /\ hist'.released = hist.released
            /\ dev' = dev
            /\ cpc' # "joining"]_vars
    /\ [](\A r \in Resources : hist.released[r] <= hist.acquired[r])

\* a second ShutdownWASAPI after one that released a started engine
C9_Witness ==
    /\ hist.shutdownCalls = 2
    /\ cpc = "stopped"
    /\ EngineStopped
    /\ hist.initResult = "true"
    /\ \A r \in Resources : hist.released[r] = 1

\* C10: when InitWASAPI has returned false there is no render thread and
\* the context holds nothing: everything acquired on the way was released.
C10_NoPartialStart ==
    hist.initResult = "false" =>
        /\ rpc = "none"
        /\ \A r \in Resources :
              /\ ~gWASAPI[r]
              /\ hist.released[r] = hist.acquired[r]

\* InitWASAPI failed at its last step, with everything else acquired
C10_Witness ==
    /\ hist.initResult = "false"
    /\ hist.acquired["pRen"] = 1
    /\ hist.released["pRen"] = 1
    /\ hist.acquired["hAudioThread"] = 0
    /\ hist.shutdownCalls = 0

\* C11: after any sequence of mouse moves and keys, whatever the pointer
\* coordinates and the client size, the stored target frequency is within
\* [100, 2000] Hz, the stored target gain and vibrato depth within [0, 1]
\* and the stored mode within {1, 2, 3, 4}.
C11_InputClamped ==
    /\ gParams.targetHz >= kMinHz /\ gParams.targetHz <= kMaxHz
    /\ gParams.targetGain >= 0 /\ gParams.targetGain <= Unit
    /\ gParams.vibratoDepth >= 0 /\ gParams.vibratoDepth <= Unit
    /\ gParams.mode \in {1, 2, 3, 4}

\* a pointer left of and above the client area, after a mode key and a key
\* the switch has no case for
C11_Witness ==
    /\ arg.fn = "WM_MOUSEMOVE"
    /\ arg.x < 0 /\ arg.y < 0 /\ arg.rc = <<900, 300>>
    /\ gParams.targetHz = kMinHz
    /\ gParams.targetGain = Unit
    /\ gParams.mode = 4
    /\ hist.nMsgs = 3

\* A phase is within [0, 2*pi).
InRange(phase) == phase >= 0 /\ phase < kTwoPi

\* C12 as claimed: for any advancing increment the three phases are within
\* [0, 2*pi) after each update.
C12_PhaseInRangeAnyIncrement ==
    arg.fn = "AdvancePhase" =>
        /\ InRange(gSynth.phaseA)
        /\ InRange(gSynth.phaseB)
        /\ InRange(gSynth.vibratoPhase)

\* C12 as amended: the update subtracts 2*pi once, so each phase stays
\* within [0, 2*pi) for any advancing increment of at most 2*pi; every
\* increment the loop computes at a device sample rate is one.
C12_PhaseInRange ==
    /\ arg.fn = "AdvancePhase" =>
          /\ arg.incA <= kTwoPi => InRange(gSynth.phaseA)
          /\ arg.incB <= kTwoPi => InRange(gSynth.phaseB)
          /\ arg.incV <= kTwoPi => InRange(gSynth.vibratoPhase)
    /\ \A r \in DeviceSampleRates, hz \in HzExtremes :
          /\ IncA(hz, r) > 0 /\ IncA(hz, r) <= kTwoPi
          /\ IncB(hz, r) > 0 /\ IncB(hz, r) <= kTwoPi
          /\ IncVibrato(r) > 0 /\ IncVibrato(r) <= kTwoPi

\* the carrier has wrapped on the third step of just under half a turn
C12_Witness ==
    /\ arg.fn = "AdvancePhase"
    /\ arg.incA = 17999
    /\ arg.steps = 3
    /\ gSynth.phaseA = 17997
    /\ arg.incB = 36000
    /\ gSynth.phaseB = 0

\* C13: each smoothing step with a coefficient in (0, 1) moves from the
\* previous value toward the fixed target without crossing it, and by no
\* more than coeff * |target - previous| (to the rounding of the product).
C13_SmoothNoOvershoot ==
    arg.fn = "smooth_step" /\ arg.steps > 0 =>
        LET d == arg.target - arg.prev
            step == arg.current - arg.prev
        IN  /\ d >= 0 => (step >= 0 /\ step <= d)
            /\ d <= 0 => (step <= 0 /\ step >= d)
            /\ 2 * Unit * Abs(step) <= 2 * arg.coeff * Abs(d) + Unit
            /\ 2 * arg.coeff * Abs(d) > Unit => step # 0

\* three steps of the gain smoother from 0 toward 1: 0.075, 0.144, 0.208
C13_Witness ==
    /\ arg.fn = "smooth_step"
    /\ arg.start = 0 /\ arg.target = Unit /\ arg.coeff = gainSmoothCoeff
    /\ arg.steps = 3
    /\ arg.prev = 144
    /\ arg.current = 208

\* C14: for every mode in {1,2,3,4}, every pair of phases in [0, 2*pi) and
\* every noise value in [-1, 1], the sample the switch produces is within
\* [-1.2, 1.2].
C14_SampleBounded ==
    arg.fn = "ModeSample" /\ arg.steps > 0 =>
        /\ arg.sample >= 0 - 1200
        /\ arg.sample <= 1200

\* the ring mode at its peak: 0.70 + 0.45 with both sines at 1
C14_Witness ==
    /\ arg.fn = "ModeSample"
    /\ arg.steps > 0
    /\ arg.mode = 2
    /\ arg.phaseA = kTwoPi \div 4 /\ arg.phaseB = kTwoPi \div 4
    /\ arg.sample = 1150

\* C15: with a mode outside {1,2,3,4} on the parameter bus the sample is
\* the sine of the carrier phase, which is what mode 1 gives for the same
\* inputs, and the noise seed is the one the program starts with:
\* white_noise() was not called.
C15_DefaultIsSine ==
    arg.fn = "Sample" /\ arg.steps > 0 /\ gParams.mode \notin {2, 3, 4} =>
        /\ arg.sample = sine(gSynth.phaseA)
        /\ seed = NoiseSeedInit

\* three passes with mode 5 have produced a nonzero sample
C15_Witness ==
    /\ arg.fn = "Sample"
    /\ gParams.mode = 5
    /\ arg.steps = 3
    /\ arg.sample > 0
    /\ seed = NoiseSeedInit

\* C16: the synth runtime state belongs to the render thread: no step of
\* the control thread (InitWASAPI, ShutdownWASAPI, a window message)
\* changes gSynth, the noise seed, the loop's locals or the region; a
\* window message changes nothing of the context but the running flag; and
\* no step of the render thread changes the parameter bus.
C16_SynthOwnedByRender ==
    /\ [][\/ /\ gSynth' = gSynth
             /\ seed' = seed
             /\ loc' = loc
             /\ out' = out
          \/ ~Control]_vars
    /\ [][\/ gWASAPI' = [gWASAPI EXCEPT !.running = gWASAPI'.running]
          \/ ~(WM_DESTROY \/ WM_MOUSEMOVE \/ WM_KEYDOWN)]_vars
    /\ [][\/ gParams' = gParams
          \/ ~Render]_vars

\* mute was pressed in the middle of a buffer whose first sample had gain
C16_Witness ==
    /\ rpc = "l176"
    /\ loc.i = 1
    /\ ~loc.mute
    /\ loc.gain > 0
    /\ gParams.mute
    /\ gSynth.smoothGain > 0
    /\ hist.nMsgs = 2

\* C17: when the render thread has returned, by whichever path (the stop
\* flag read false at line 159, a failed Start, a failed GetCurrentPadding,
\* GetBuffer or ReleaseBuffer), the device stream is not running: the
\* thread called Stop exactly once, or the audio client was gone before it
\* got to line 255; and the boost handle is cleared, each boost obtained
\* having been reverted exactly once.
C17_ExitReleases ==
    rpc = "returned" =>
        /\ dev.stream \in {"stopped", "released"}
        /\ hist.stops <= 1
        /\ hist.stops = 1 \/ dev.stream = "released"
        /\ ~gWASAPI.hAvrt
        /\ hist.reverts = hist.boosts

\* the thread has returned after a protocol failure, with a boost obtained
C17_Witness ==
    /\ rpc = "returned"
    /\ hist.failed \in {"Start", "GetCurrentPadding", "GetBuffer",
                        "ReleaseBuffer"}
    /\ hist.boosts = 1
    /\ hist.reverts = 1
    /\ hist.stops = 1

\* The delay lines as lines 146-149 size them for a sample rate, with the
\* cursor where the given number of passes of the body leaves it.
DelayLinesValid(s, sampleRate, passes) ==
    /\ s.delayBufL.size = DelaySamples(sampleRate)
    /\ s.delayBufR.size = s.delayBufL.size
    /\ s.delayIndex >= 0
    /\ s.delayIndex < s.delayBufL.size
    /\ s.delayIndex = passes % s.delayBufL.size
    /\ DOMAIN s.delayBufL.at \subseteq 0..(s.delayBufL.size - 1)
    /\ DOMAIN s.delayBufR.at \subseteq 0..(s.delayBufR.size - 1)

\* C18: once lines 146-149 have sized the delay lines, every state of the
\* loop has both of the length the sample rate gave, the cursor is an index
\* of them and every element written lies inside them, and each pass of the
\* body has moved the cursor on by one modulo the length; for every device
\* sample rate the length is positive and the cursor's successor is the
\* next index, or 0 from the last.
C18_DelayCursorValid ==
    /\ arg.fn = "Sample" /\ gSynth.delayBufL.size > 0 =>
           DelayLinesValid(gSynth, arg.sampleRate, arg.steps)
    /\ \A r \in DeviceSampleRates :
         LET size == DelaySamples(r)
         IN  /\ size > 0
             /\ \A di \in {0, 1, size - 2, size - 1} :
                  NextDelayIndex(di, size) =
                      IF di = size - 1 THEN 0 ELSE di + 1

\* the cursor has gone round the delay line once and is on its second slot
C18_Witness ==
    /\ arg.fn = "Sample"
    /\ gSynth.delayBufL.size = 96
    /\ arg.steps = 97
    /\ gSynth.delayIndex = 1
    /\ At(gSynth.delayBufL, 0) # 0

\* The loop is about to synthesize the first sample of the thread's run.
FirstSample ==
    /\ rpc = "l176"
    /\ hist.buffers = 1
    /\ loc.i = 0

\* C19: when the render loop starts on its first sample, the carrier, the
\* modulator and the vibrato phase are 0, the smoothed frequency is 440 Hz,
\* the smoothed gain is 0, the cursor is 0 and both delay lines, of the
\* length the sample rate gives, hold zeros only; whatever the window
\* procedure has stored into the parameter bus by then.
C19_FirstSampleFromDefaults ==
    FirstSample =>
        /\ gSynth.phaseA = 0
        /\ gSynth.phaseB = 0
        /\ gSynth.vibratoPhase = 0
        /\ gSynth.smoothHz = 440 * HzUnit
        /\ gSynth.smoothGain = 0
        /\ gSynth.delayIndex = 0
        /\ gSynth.delayBufL = Assign(DelaySamples(loc.sampleRate))
        /\ gSynth.delayBufR = Assign(DelaySamples(loc.sampleRate))
        /\ \A k \in 0..(gSynth.delayBufL.size - 1) :
              At(gSynth.delayBufL, k) = 0 /\ At(gSynth.delayBufR, k) = 0

\* the first sample is about to be made with the targets already moved
C19_Witness ==
    /\ FirstSample
    /\ gParams.targetGain > 0
    /\ gParams.targetHz # DefaultHz
    /\ gSynth.delayBufL.size > 0

\* The for loop has written every frame of the region: line 250 is next.
AtCommit ==
    /\ arg.fn = "WriteFrame"
    /\ out # <<>>
    /\ arg.i = arg.frames

\* C20: at the commit, every slot of the frames * channels slots of the
\* region has been written by the loop, for each frame count and each
\* channel count.
C20_AllSlotsWritten ==
    AtCommit => \A k \in DOMAIN out : out[k] # Stale

\* What the loop does write: the first two slots of each frame, so the
\* whole region for one and two channels.
C20_FirstTwoChannelsWritten ==
    AtCommit =>
        \A k \in DOMAIN out :
            (out[k] # Stale) = ((k - 1) % arg.channels < 2)

=============================================================================
